---------------------------- MODULE Spec2Model ----------------------------
(***************************************************************************)
(* A model of kilo-rust (src/main.rs): the Editor struct, the file load,   *)
(* the cursor and viewport operations, and the read/handle/redraw loop.    *)
(*                                                                         *)
(* usize arithmetic is modelled as the checked arithmetic of the dev       *)
(* profile: a subtraction whose result would be negative, an index out of  *)
(* bounds and a failed assert! abort the process (status "panicked").      *)
(* A handler loop that repeats without changing the state never returns    *)
(* (status "hung").                                                        *)
(***************************************************************************)
EXTENDS Integers, Sequences, FiniteSets, TLC

\* ------------------------------------------------------------------ bounds
MaxLines == 2
MaxWidth == 14
MaxHeight == 3

\* Config { tab_width: 4 } in main().
tab_width == 4

\* The line lengths the loaded files are built from: an empty line, a line
\* that fills one row of the narrowest window, a wrapped line with a short
\* last row, and a line of exactly two rows.
LineLens == {0, 14, 17, 28}

\* Terminal widths.  build_status_bar subtracts the width of
\* "<line>:<col> | <n> lines" from window_width, which underflows in a
\* narrower window once the column has two digits: 4 + 3 + 7 columns are
\* the least the editor redraws in.
Widths == { w \in 1..MaxWidth : w >= 4 + 3 + 7 }

\* Window heights (terminal rows minus the status bar and the message bar).
Heights == 1..MaxHeight

\* editor is the Editor struct and terminal the size of the terminal window.
\* stdin is the input stream (the bytes not yet read, and whether the stream
\* has ended), stdout the bytes of the latest write to the terminal, process
\* the position of main() with the terminal mode, and clock the monotonic
\* time in seconds.
VARIABLES editor, terminal, stdin, stdout, process, clock

vars == <<editor, terminal, stdin, stdout, process, clock>>

\* ----------------------------------------------------------------- helpers
Min(a, b) == IF a <= b THEN a ELSE b

\* The length of usize::to_string for the numbers the model reaches.
digits(n) == IF n < 10 THEN 1 ELSE IF n < 100 THEN 2 ELSE 3

Panic(self) == [self EXCEPT !.status = "panicked"]

\* ---------------------------------------------------------------- the file
\* n bytes 'x'.
RECURSIVE Xs(_)
Xs(n) == IF n = 0 THEN <<>> ELSE <<"x">> \o Xs(n - 1)

\* The bytes of a file whose lines have the lengths lens (no final newline).
RECURSIVE FileOf(_)
FileOf(lens) ==
    IF Len(lens) = 1 THEN Xs(lens[1])
    ELSE Xs(lens[1]) \o <<"\n">> \o FileOf(Tail(lens))

Files == { FileOf(lens) : lens \in UNION { [1..n -> LineLens] : n \in 1..MaxLines } }

\* buf.split(|b| *b == '\n'): the slices between newlines; an empty buffer
\* gives one empty slice, a final newline a final empty slice.
RECURSIVE split(_, _)
split(buf, acc) ==
    IF buf = <<>> THEN <<acc>>
    ELSE IF Head(buf) = "\n" THEN <<acc>> \o split(Tail(buf), <<>>)
    ELSE split(Tail(buf), Append(acc, Head(buf)))

\* The spaces one tab at orig position pos (0-based) expands to: one, then
\* one more while i % tab_width != 0, i counting up from pos + 1.
RECURSIVE tab_spaces(_)
tab_spaces(i) ==
    IF i % tab_width /= 0 THEN <<" ">> \o tab_spaces(i + 1) ELSE <<>>

RECURSIVE render_from(_, _)
render_from(line, pos) ==
    IF pos >= Len(line) THEN <<>>
    ELSE (IF line[pos + 1] = "\t" THEN <<" ">> \o tab_spaces(pos + 1)
          ELSE <<line[pos + 1]>>) \o render_from(line, pos + 1)

line_orig_to_render(line) == render_from(line, 0)

Line(orig) == [orig |-> orig, render |-> line_orig_to_render(orig)]

\* Line::len and Line::is_empty, of lines[i] (0-based).
len(self, i) == Len(self.lines[i + 1].render)
is_empty(self, i) == self.lines[i + 1].render = <<>>

\* The file name shown on the status bar.
FileName == <<"f">>

\* Editor::new followed by the load in Editor::open_file.
open_file(buf) ==
    LET slices == split(buf, <<>>) IN
    [ cursor |-> [pos |-> [row |-> 0, col |-> 0], line |-> 0, byte |-> 0,
                  is_at_eol |-> FALSE],
      window_width |-> 0,
      window_height |-> 0,
      lines |-> [i \in 1..Len(slices) |-> Line(slices[i])],
      write_buf |-> <<>>,
      line_offset |-> 0,
      line_offset_byte |-> 0,
      path |-> FileName,
      status_msg |-> [data |-> <<>>, timestamp |-> 0, timeout |-> 0],
      status |-> "new" ]

\* -------------------------------------------------------- row arithmetic
\* Editor::curr_last_pos_row_offset.  A failed assert!(window_width > 0)
\* is reported as -1.
curr_last_pos_row_offset(self) ==
    IF self.lines = <<>> THEN 0
    ELSE IF is_empty(self, self.cursor.line) THEN 0
    ELSE IF self.window_width > 0
         THEN Min(len(self, self.cursor.line), self.window_width) - 1
         ELSE -1

\* Editor::curr_last_pos_line_offset.  A negative value stands for the
\* usize underflow of byte + last - col (or the failed assert above).
curr_last_pos_line_offset(self) ==
    IF curr_last_pos_row_offset(self) < 0 THEN -1
    ELSE self.cursor.byte + curr_last_pos_row_offset(self) - self.cursor.pos.col

\* Editor::curr_line_next_rows_len (its caller checks the underflow first).
curr_line_next_rows_len(self) ==
    LET line_len == len(self, self.cursor.line)
        row_last_byte == curr_last_pos_line_offset(self)
    IN  IF row_last_byte + 1 >= line_len THEN 0
        ELSE line_len - row_last_byte - 1

\* ---------------------------------------------------------------- scrolling
\* scroll_down without the reset of line_offset_byte on the way to the next
\* line.
scroll_down_keeps_byte(self) ==
    IF self.cursor.line + 1 >= Len(self.lines)
       /\ curr_last_pos_line_offset(self) < 0
    THEN Panic(self)
    ELSE IF self.cursor.line + 1 < Len(self.lines)
            \/ curr_line_next_rows_len(self) > 0
    THEN IF self.line_offset >= Len(self.lines) THEN Panic(self)
         ELSE LET moved ==
                    IF self.line_offset_byte + self.window_width
                         < len(self, self.line_offset)
                    THEN [self EXCEPT !.line_offset_byte = @ + self.window_width]
                    ELSE [self EXCEPT !.line_offset = @ + 1]
              IN  IF self.cursor.pos.row = 0 THEN Panic(moved)
                  ELSE [moved EXCEPT !.cursor.pos.row = @ - 1]
    ELSE self

\* Editor::scroll_down.
scroll_down(self) ==
    IF self.cursor.line + 1 >= Len(self.lines)
       /\ curr_last_pos_line_offset(self) < 0
    THEN Panic(self)
    ELSE IF self.cursor.line + 1 < Len(self.lines)
            \/ curr_line_next_rows_len(self) > 0
    THEN IF self.line_offset >= Len(self.lines) THEN Panic(self)
         ELSE LET moved ==
                    IF self.line_offset_byte + self.window_width
                         < len(self, self.line_offset)
                    THEN [self EXCEPT !.line_offset_byte = @ + self.window_width]
                    ELSE [self EXCEPT !.line_offset = @ + 1,
                                      !.line_offset_byte = 0]
              IN  IF self.cursor.pos.row = 0 THEN Panic(moved)
                  ELSE [moved EXCEPT !.cursor.pos.row = @ - 1]
    ELSE self

\* Editor::scroll_up.
scroll_up(self) ==
    IF self.line_offset_byte >= self.window_width
    THEN [self EXCEPT !.line_offset_byte = @ - self.window_width]
    ELSE IF self.line_offset > 0
    THEN LET prev == self.line_offset - 1 IN
         IF prev >= Len(self.lines) THEN Panic([self EXCEPT !.line_offset = prev])
         ELSE IF len(self, prev) > self.window_width
         THEN [self EXCEPT !.line_offset = prev,
                           !.line_offset_byte =
                               (len(self, prev) \div self.window_width)
                                   * self.window_width]
         ELSE [self EXCEPT !.line_offset = prev, !.line_offset_byte = 0]
    ELSE self

\* ------------------------------------------------------------- cursor moves
\* cursor_down_move with the last-line test off by one
\* (cursor.line < lines.len()).
cursor_down_move_past_end(self) ==
    IF curr_last_pos_line_offset(self) < 0 THEN Panic(self)
    ELSE
    LET next_rows_len == curr_line_next_rows_len(self) IN
    IF next_rows_len > 0
    THEN LET s1 == IF self.cursor.pos.row + 1 < self.window_height
                   THEN [self EXCEPT !.cursor.pos.row = @ + 1] ELSE self
             next_row_len == Min(next_rows_len, self.window_width)
             col == IF self.cursor.is_at_eol THEN next_row_len - 1
                    ELSE Min(self.cursor.pos.col, next_row_len - 1)
             s2 == [s1 EXCEPT !.cursor.pos.col = col]
         IN  IF curr_last_pos_line_offset(s2) < 0 THEN Panic(s2)
             ELSE [s2 EXCEPT !.cursor.byte =
                                 curr_last_pos_line_offset(s2) + 1 + col]
    ELSE IF self.cursor.line < Len(self.lines)
    THEN LET s1 == [self EXCEPT !.cursor.line = @ + 1]
             s2 == IF s1.cursor.pos.row + 1 < s1.window_height
                   THEN [s1 EXCEPT !.cursor.pos.row = @ + 1] ELSE s1
         IN  IF s2.cursor.line >= Len(s2.lines) THEN Panic(s2)
             ELSE
             LET n == len(s2, s2.cursor.line)
                 col == IF n = 0 THEN 0
                        ELSE IF s2.cursor.is_at_eol
                        THEN Min(n, s2.window_width) - 1
                        ELSE Min(n - 1, s2.cursor.pos.col)
             IN  IF col < 0 THEN Panic(s2)
                 ELSE [s2 EXCEPT !.cursor.pos.col = col, !.cursor.byte = col]
    ELSE self

\* The body of Editor::cursor_down after the scroll.
cursor_down_move(self) ==
    IF curr_last_pos_line_offset(self) < 0 THEN Panic(self)
    ELSE
    LET next_rows_len == curr_line_next_rows_len(self) IN
    IF next_rows_len > 0
    THEN LET s1 == IF self.cursor.pos.row + 1 < self.window_height
                   THEN [self EXCEPT !.cursor.pos.row = @ + 1] ELSE self
             next_row_len == Min(next_rows_len, self.window_width)
             col == IF self.cursor.is_at_eol THEN next_row_len - 1
                    ELSE Min(self.cursor.pos.col, next_row_len - 1)
             \* pos.col is assigned before curr_last_pos_line_offset is
             \* evaluated for the new byte offset.
             s2 == [s1 EXCEPT !.cursor.pos.col = col]
         IN  IF curr_last_pos_line_offset(s2) < 0 THEN Panic(s2)
             ELSE [s2 EXCEPT !.cursor.byte =
                                 curr_last_pos_line_offset(s2) + 1 + col]
    ELSE IF self.cursor.line + 1 < Len(self.lines)
    THEN LET s1 == [self EXCEPT !.cursor.line = @ + 1]
             s2 == IF s1.cursor.pos.row + 1 < s1.window_height
                   THEN [s1 EXCEPT !.cursor.pos.row = @ + 1] ELSE s1
             n == len(s2, s2.cursor.line)
             col == IF n = 0 THEN 0
                    ELSE IF s2.cursor.is_at_eol
                    THEN Min(n, s2.window_width) - 1
                    ELSE Min(n - 1, s2.cursor.pos.col)
         IN  IF col < 0 THEN Panic(s2)
             ELSE [s2 EXCEPT !.cursor.pos.col = col, !.cursor.byte = col]
    ELSE self

\* Editor::cursor_down.
cursor_down(self) ==
    LET s0 == IF self.cursor.pos.row + 1 = self.window_height
              THEN scroll_down(self) ELSE self
    IN  IF s0.status /= "running" THEN s0 ELSE cursor_down_move(s0)

\* The body of Editor::cursor_up after the scroll.
cursor_up_move(self) ==
    IF self.cursor.byte >= self.window_width
    THEN LET s1 == IF self.cursor.pos.row > 0
                   THEN [self EXCEPT !.cursor.pos.row = @ - 1] ELSE self
         IN  IF s1.cursor.is_at_eol
             THEN LET b == (s1.cursor.byte \div s1.window_width)
                               * s1.window_width - 1
                  IN  IF b < 0 THEN Panic(s1)
                      ELSE [s1 EXCEPT !.cursor.byte = b,
                                      !.cursor.pos.col = b % s1.window_width]
             ELSE [s1 EXCEPT !.cursor.byte = @ - s1.window_width]
    ELSE IF self.cursor.line > 0
    THEN LET s1 == [self EXCEPT !.cursor.line = @ - 1]
             s2 == IF s1.cursor.pos.row > 0
                   THEN [s1 EXCEPT !.cursor.pos.row = @ - 1] ELSE s1
             n == len(s2, s2.cursor.line)
         IN  IF n = 0
             THEN [s2 EXCEPT !.cursor.pos.col = 0, !.cursor.byte = 0]
             ELSE IF n <= s2.window_width
             THEN LET col == IF s2.cursor.is_at_eol THEN n - 1
                             ELSE Min(n - 1, s2.cursor.pos.col)
                  IN  [s2 EXCEPT !.cursor.pos.col = col, !.cursor.byte = col]
             ELSE LET last_row_first_byte ==
                          (n \div s2.window_width) * s2.window_width
                      last_row_len == n - last_row_first_byte
                      col == IF s2.cursor.is_at_eol THEN last_row_len - 1
                             ELSE Min(last_row_len - 1, s2.cursor.pos.col)
                  IN  \* last_row_len - 1 is evaluated in both branches.
                      IF last_row_len - 1 < 0 THEN Panic(s2)
                      ELSE [s2 EXCEPT !.cursor.byte = last_row_first_byte + col,
                                      !.cursor.pos.col = col]
    ELSE self

\* Editor::cursor_up.
cursor_up(self) ==
    LET s0 == IF self.cursor.pos.row = 0 THEN scroll_up(self) ELSE self
    IN  IF s0.status /= "running" THEN s0 ELSE cursor_up_move(s0)

\* cursor_left without the step of cursor.byte.
cursor_left_keeps_byte(self) ==
    IF self.cursor.pos.col > 0
    THEN IF curr_last_pos_row_offset(self) < 0 THEN Panic(self)
         ELSE
         LET s1 == IF self.cursor.pos.col = curr_last_pos_row_offset(self)
                   THEN [self EXCEPT !.cursor.is_at_eol = FALSE] ELSE self
         IN  [s1 EXCEPT !.cursor.pos.col = @ - 1]
    ELSE self

\* Editor::cursor_left.
cursor_left(self) ==
    IF self.cursor.pos.col > 0
    THEN IF curr_last_pos_row_offset(self) < 0 THEN Panic(self)
         ELSE
         LET s1 == IF self.cursor.pos.col = curr_last_pos_row_offset(self)
                   THEN [self EXCEPT !.cursor.is_at_eol = FALSE] ELSE self
             s2 == [s1 EXCEPT !.cursor.pos.col = @ - 1]
         IN  IF s2.cursor.byte = 0 THEN Panic(s2)
             ELSE [s2 EXCEPT !.cursor.byte = @ - 1]
    ELSE self

\* The condition of Editor::cursor_right, repeated by the LineEnd loop.
can_go_right(self) ==
    /\ self.cursor.byte + 1 < len(self, self.cursor.line)
    /\ self.cursor.pos.col + 1 < self.window_width

\* cursor_right without the test of the column against window_width.
cursor_right_past_row(self) ==
    IF self.cursor.byte + 1 < len(self, self.cursor.line)
    THEN LET s1 == [self EXCEPT !.cursor.pos.col = @ + 1,
                                !.cursor.byte = @ + 1]
         IN  IF s1.cursor.pos.col = curr_last_pos_row_offset(s1)
             THEN [s1 EXCEPT !.cursor.is_at_eol = TRUE]
             ELSE s1
    ELSE self

\* Editor::cursor_right.
cursor_right(self) ==
    IF can_go_right(self)
    THEN LET s1 == [self EXCEPT !.cursor.pos.col = @ + 1,
                                !.cursor.byte = @ + 1]
         IN  IF curr_last_pos_row_offset(s1) < 0 THEN Panic(s1)
             ELSE IF s1.cursor.pos.col = curr_last_pos_row_offset(s1)
             THEN [s1 EXCEPT !.cursor.is_at_eol = TRUE]
             ELSE s1
    ELSE self

\* ------------------------------------------------------------ key handlers
\* The loop of Editor::page_down.
RECURSIVE page_down_loop(_, _)
page_down_loop(self, n_rows_left) ==
    IF self.status = "running" /\ n_rows_left > 0
       /\ self.cursor.line < Len(self.lines)
    THEN page_down_loop(cursor_down(self), n_rows_left - 1)
    ELSE self

\* Editor::page_down.
page_down(self) ==
    IF self.window_height < 1 THEN Panic(self)
    ELSE page_down_loop(self, self.window_height - 1)

\* The loop of Editor::page_up.
RECURSIVE page_up_loop(_, _)
page_up_loop(self, n_rows_left) ==
    IF self.status = "running" /\ n_rows_left > 0 /\ self.cursor.line > 0
    THEN page_up_loop(cursor_up(self), n_rows_left - 1)
    ELSE self

\* Editor::page_up.
page_up(self) ==
    IF self.window_height < 1 THEN Panic(self)
    ELSE page_up_loop(self, self.window_height - 1)

\* Key::LineHome in Editor::handle_esc_seq_key: while cursor.byte > 0,
\* cursor_left.  An iteration that leaves the editor as it was repeats for
\* ever.
RECURSIVE line_home(_)
line_home(self) ==
    IF self.status /= "running" \/ self.cursor.byte = 0 THEN self
    ELSE IF cursor_left(self) = self THEN [self EXCEPT !.status = "hung"]
    ELSE line_home(cursor_left(self))

\* Key::LineEnd in Editor::handle_esc_seq_key.
RECURSIVE line_end(_)
line_end(self) ==
    IF self.status /= "running" \/ ~can_go_right(self) THEN self
    ELSE IF cursor_right(self) = self THEN [self EXCEPT !.status = "hung"]
    ELSE line_end(cursor_right(self))

\* The match of Editor::handle_esc_seq_key on a decoded key.
handle_esc_seq_key(self, key) ==
    CASE key = "ArrowUp"    -> cursor_up(self)
      [] key = "ArrowDown"  -> cursor_down(self)
      [] key = "ArrowLeft"  -> cursor_left(self)
      [] key = "ArrowRight" -> cursor_right(self)
      [] key = "PageUp"     -> page_up(self)
      [] key = "PageDown"   -> page_down(self)
      [] key = "LineHome"   -> line_home(self)
      [] key = "LineEnd"    -> line_end(self)
      [] OTHER              -> self

\* ------------------------------------------------------------------ redraw
\* Editor::update_window_size: the cursor report of the bottom right corner
\* is {row: rows - 1, col: cols - 1}.
update_window_size(self, term) ==
    IF term.rows - 1 < 1 THEN Panic(self)
    ELSE [self EXCEPT !.window_width = (term.cols - 1) + 1,
                      !.window_height = (term.rows - 1) - 1]

\* n_used_bytes of Editor::build_status_bar before the path is added:
\* "<line>:<col>", " | " and "<n> line" or "<n> lines".
n_used_bytes(self) ==
    (digits(self.cursor.line) + 1 + digits(self.cursor.pos.col))
      + (digits(Len(self.lines)) + (IF Len(self.lines) = 1 THEN 5 ELSE 6))
      + 3

\* Editor::refresh_screen, as far as it touches the modelled state: the
\* window size is read again, build_rows subtracts line_offset_byte from
\* the first drawn line's length and build_status_bar subtracts
\* n_used_bytes from window_width.
refresh_screen(self, term) ==
    LET s1 == update_window_size(self, term) IN
    IF s1.status = "panicked" THEN s1
    ELSE IF s1.window_height > 0 /\ s1.line_offset < Len(s1.lines)
            /\ len(s1, s1.line_offset) < s1.line_offset_byte
    THEN Panic(s1)
    ELSE IF s1.window_width < n_used_bytes(s1) THEN Panic(s1)
    ELSE s1

\* ---------------------------------------------------------- the state machine
NavKeys == {"ArrowUp", "ArrowDown", "ArrowLeft", "ArrowRight",
            "PageUp", "PageDown", "LineHome", "LineEnd"}

\* main() has entered raw mode and opened the file named by its argument;
\* nothing is typed yet and nothing is written yet.
Opened ==
    /\ stdin = [bytes |-> <<>>, closed |-> FALSE]
    /\ stdout = <<>>
    /\ process = [pc |-> "run", termios |-> "raw", argc |-> 2, openable |-> TRUE]
    /\ clock = 0

\* The key-level view of the editor: the terminal answers every size query
\* with its size and delivers whole escape sequences of navigation keys, one
\* per turn; the byte streams, the process and the clock stay as Opened
\* leaves them.
Init ==
    /\ \E buf \in Files : editor = open_file(buf)
    /\ \E cols \in Widths, h \in Heights : terminal = [rows |-> h + 2, cols |-> cols]
    /\ Opened

\* Editor::run up to the first read: two redraws (new_status_msg between
\* them touches only the message).
Start ==
    /\ editor.status = "new"
    /\ LET s1 == refresh_screen([editor EXCEPT !.status = "running"], terminal)
       IN  editor' = IF s1.status = "running" THEN refresh_screen(s1, terminal)
                     ELSE s1
    /\ UNCHANGED <<terminal, stdin, stdout, process, clock>>

\* One turn of the loop of Editor::run on an escape sequence that decodes
\* to key: the handler, then the redraw that opens the next turn.
turn(self, key, term) ==
    LET s1 == handle_esc_seq_key(self, key)
    IN  IF s1.status = "running" THEN refresh_screen(s1, term) ELSE s1

Press(key) ==
    /\ editor.status = "running"
    /\ editor' = turn(editor, key, terminal)
    /\ UNCHANGED <<terminal, stdin, stdout, process, clock>>

Up == Press("ArrowUp")
Down == Press("ArrowDown")
Left == Press("ArrowLeft")
Right == Press("ArrowRight")
PageUp == Press("PageUp")
PageDown == Press("PageDown")
LineHome == Press("LineHome")
LineEnd == Press("LineEnd")

Next ==
    \/ Start
    \/ Up
    \/ Down
    \/ Left
    \/ Right
    \/ PageUp
    \/ PageDown
    \/ LineHome
    \/ LineEnd

Spec == Init /\ [][Next]_vars

\* ------------------------------------------------------------- properties
Running == editor.status = "running"

\* A step that is a turn of the loop on key.
Pressed(key) == Running /\ editor' = turn(editor, key, terminal)

\* Line::len of the cursor's line, and the first byte of the cursor's row.
CursorLineLen(self) == len(self, self.cursor.line)
RowStart(self) == (self.cursor.byte \div self.window_width) * self.window_width

\* C1: while the editor runs, cursor.byte < max(1, length of the cursor's
\* line).
C1_ByteOffsetInLine ==
    Running =>
        editor.cursor.byte < (IF CursorLineLen(editor) > 1
                              THEN CursorLineLen(editor) ELSE 1)

\* C2: while the editor runs, cursor.pos.col is cursor.byte modulo
\* window_width on a line longer than window_width and cursor.byte on a
\* line that fits in one row.
C2_ColumnMatchesOffset ==
    Running =>
        editor.cursor.pos.col =
            (IF CursorLineLen(editor) > editor.window_width
             THEN editor.cursor.byte % editor.window_width
             ELSE editor.cursor.byte)

\* C3: a Down pressed while the cursor's line has bytes after the cursor's
\* row keeps cursor.line and lands on the next row at column
\* c = min(next_row_length, window_width) - 1 if is_at_eol is set, else
\* c = min(column, next_row_length - 1), with cursor.byte = the first byte
\* of that row + c.  Stated for a window of two or more rows.
C3_DownInsideWrappedLine ==
    [][ (/\ Pressed("ArrowDown")
         /\ editor.window_height >= 2
         /\ editor.cursor.byte < CursorLineLen(editor)
         /\ RowStart(editor) + editor.window_width < CursorLineLen(editor))
        =>
        LET next_row_first_byte == RowStart(editor) + editor.window_width
            next_row_length == Min(CursorLineLen(editor) - next_row_first_byte,
                                   editor.window_width)
            c == IF editor.cursor.is_at_eol
                 THEN Min(next_row_length, editor.window_width) - 1
                 ELSE Min(editor.cursor.pos.col, next_row_length - 1)
        IN  /\ editor'.status = "running"
            /\ editor'.cursor.line = editor.cursor.line
            /\ editor'.cursor.pos.col = c
            /\ editor'.cursor.byte = next_row_first_byte + c ]_vars

\* C4: an Up pressed on the first row of a line that follows a line of
\* length n * window_width, n >= 2, does not underflow, lands the cursor in
\* the final row [(n-1) * window_width, n * window_width) of that line, and
\* a viewport scrolled up onto that line starts at (n-1) * window_width.
C4_ExactMultipleUp ==
    [][ (/\ Pressed("ArrowUp")
         /\ editor.cursor.line > 0
         /\ editor.cursor.byte < editor.window_width
         /\ len(editor, editor.cursor.line - 1) % editor.window_width = 0
         /\ len(editor, editor.cursor.line - 1) >= 2 * editor.window_width)
        =>
        LET n_bytes == len(editor, editor.cursor.line - 1)
            last_row == n_bytes - editor.window_width
        IN  /\ editor'.status = "running"
            /\ editor'.cursor.line = editor.cursor.line - 1
            /\ editor'.cursor.byte >= last_row
            /\ editor'.cursor.byte < n_bytes
            /\ (editor'.line_offset = editor.line_offset - 1
                  => editor'.line_offset_byte = last_row) ]_vars

\* All lines of the file have the same length.
SameLengths(self) ==
    \A i, j \in 1..Len(self.lines) :
        Len(self.lines[i].render) = Len(self.lines[j].render)

\* C5: in a file whose lines all have the same length, from a cursor that
\* is not on the first row of the first line, Down and then Up restore
\* cursor.line and cursor.byte.  Stated for the cursors Down moves (on the
\* last row of the file Down does nothing).
C5_DownUpRoundTrip ==
    LET down == turn(editor, "ArrowDown", terminal)
        up == IF down.status = "running"
              THEN turn(down, "ArrowUp", terminal) ELSE down
    IN  (/\ Running
         /\ SameLengths(editor)
         /\ ~(editor.cursor.line = 0
              /\ editor.cursor.byte < editor.window_width)
         /\ down.cursor /= editor.cursor)
        => /\ up.status = "running"
           /\ up.cursor.line = editor.cursor.line
           /\ up.cursor.byte = editor.cursor.byte

Viewport(self) == <<self.line_offset, self.line_offset_byte>>

\* C6: from a state where scroll_down changes the viewport, scroll_down and
\* then scroll_up restore line_offset and line_offset_byte.
C6_ScrollRoundTrip ==
    (/\ Running
     /\ scroll_down(editor).status = "running"
     /\ Viewport(scroll_down(editor)) /= Viewport(editor))
    => Viewport(scroll_up(scroll_down(editor))) = Viewport(editor)

\* n applications of cursor_left.
RECURSIVE left_n(_, _)
left_n(self, n) ==
    IF n = 0 \/ self.status /= "running" THEN self
    ELSE left_n(cursor_left(self), n - 1)

\* cursor_right moves the cursor.
right_moves(self) ==
    /\ cursor_right(self).status = "running"
    /\ cursor_right(self).cursor /= self.cursor

\* cur is start after n Rights that each moved the cursor: n Lefts bring
\* cur back to start's byte and pos, and so for every further Right that
\* moves.
RECURSIVE round_trips(_, _, _)
round_trips(start, cur, n) ==
    /\ LET back == left_n(cur, n)
       IN  /\ back.status = "running"
           /\ back.cursor.byte = start.cursor.byte
           /\ back.cursor.pos = start.cursor.pos
    /\ (right_moves(cur) => round_trips(start, cursor_right(cur), n + 1))

\* C7: if n Rights each move the cursor, n Lefts after them restore
\* cursor.byte and cursor.pos, for every n.
C7_RightLeftRoundTrip ==
    Running => round_trips(editor, editor, 0)

\* C7's case: a cursor on the second row of a wrapped line that three
\* Rights move, and that the three Lefts after them bring back.
C7_Witness ==
    LET r1 == cursor_right(editor)
        r2 == cursor_right(r1)
        r3 == cursor_right(r2)
    IN  /\ Running
        /\ editor.cursor.byte >= editor.window_width
        /\ right_moves(editor) /\ right_moves(r1) /\ right_moves(r2)
        /\ r3.cursor.byte = editor.cursor.byte + 3
        /\ left_n(r3, 3).cursor.byte = editor.cursor.byte
        /\ left_n(r3, 3).cursor.pos = editor.cursor.pos

\* C8: while the editor runs, line_offset_byte is a multiple of
\* window_width, and is 0 when the line at line_offset is no longer than
\* window_width.
C8_ViewportInvariant ==
    Running =>
        /\ editor.line_offset < Len(editor.lines)
        /\ editor.line_offset_byte % editor.window_width = 0
        /\ (len(editor, editor.line_offset) <= editor.window_width
              => editor.line_offset_byte = 0)

\* C8's case: the viewport was scrolled through the rows of a wrapped line
\* and on to the next line, which fits in one row.
C8_Witness ==
    /\ Running
    /\ editor.line_offset > 0
    /\ editor.line_offset_byte = 0
    /\ len(editor, editor.line_offset) <= editor.window_width
    /\ len(editor, editor.line_offset - 1) > editor.window_width

\* C9: after the load and after every command, the lines are not empty and
\* cursor.line < lines.len().
C9_LineIndexInBounds ==
    /\ Len(editor.lines) >= 1
    /\ editor.cursor.line < Len(editor.lines)

\* C9's case: the cursor was moved down to the last line of a file of
\* several lines.
C9_Witness ==
    /\ Running
    /\ Len(editor.lines) >= 2
    /\ editor.cursor.line = Len(editor.lines) - 1

\* C10: a LineHome pressed in any running state returns, with
\* cursor.byte = 0.
C10_LineHomeTerminates ==
    [][ Pressed("LineHome")
        => (editor'.status = "running" /\ editor'.cursor.byte = 0) ]_vars

\* n applications of cursor_down, and of cursor_up.
RECURSIVE down_n(_, _)
down_n(self, n) ==
    IF n = 0 \/ self.status /= "running" THEN self
    ELSE down_n(cursor_down(self), n - 1)

RECURSIVE up_n(_, _)
up_n(self, n) ==
    IF n = 0 \/ self.status /= "running" THEN self
    ELSE up_n(cursor_up(self), n - 1)

\* Two editors with the same cursor and viewport (and the same fate).
SameCursorAndViewport(a, b) ==
    /\ a.status = b.status
    /\ a.cursor = b.cursor
    /\ Viewport(a) = Viewport(b)

\* C11: in every running state (window_height >= 1) PageDown leaves the
\* cursor and the viewport as window_height - 1 Downs do, and PageUp as
\* window_height - 1 Ups do, also with the cursor on a later row of line 0.
C11_PageMovesAreRepeatedMoves ==
    (Running /\ editor.window_height >= 1)
    => /\ SameCursorAndViewport(page_down(editor),
                                down_n(editor, editor.window_height - 1))
       /\ SameCursorAndViewport(page_up(editor),
                                up_n(editor, editor.window_height - 1))


\* =================================================== the byte-level editor
\* ------------------------------------------------------------------- bytes
\* The u8 values of the bytes that are compared or computed with.  "ESC" is
\* the byte 0x1b and "ETX" the byte 0x03.
ord ==
    [b \in {"ESC", "ETX", "[", "O", "A", "B", "C", "D", "H", "F", "~", "R",
            ";", "x", "X", "Y", "c",
            "0", "1", "2", "3", "4", "5", "6", "7", "8", "9"} |->
        CASE b = "ESC" -> 27 [] b = "ETX" -> 3
          [] b = "[" -> 91  [] b = "O" -> 79
          [] b = "A" -> 65  [] b = "B" -> 66 [] b = "C" -> 67 [] b = "D" -> 68
          [] b = "H" -> 72  [] b = "F" -> 70
          [] b = "~" -> 126 [] b = "R" -> 82 [] b = ";" -> 59
          [] b = "x" -> 120 [] b = "X" -> 88 [] b = "Y" -> 89 [] b = "c" -> 99
          [] b = "0" -> 48  [] b = "1" -> 49 [] b = "2" -> 50 [] b = "3" -> 51
          [] b = "4" -> 52  [] b = "5" -> 53 [] b = "6" -> 54 [] b = "7" -> 55
          [] b = "8" -> 56  [] b = "9" -> 57]

chr(n) == CHOOSE b \in DOMAIN ord : ord[b] = n

\* ctrl_mask: (c as u8 & 0x1f) as char.
ctrl_mask(c) == chr(ord[c] % 32)

\* c >= '0' && c <= '9' (and char::is_numeric on these bytes).
is_digit(c) == ord[c] >= ord["0"] /\ ord[c] <= ord["9"]

\* usize::to_string.
RECURSIVE to_string(_)
to_string(n) ==
    IF n < 10 THEN <<chr(ord["0"] + n)>>
    ELSE to_string(n \div 10) \o <<chr(ord["0"] + (n % 10))>>

\* The element of a set of one element: Only({ e : x \in {v} }) is e with
\* x the value of v.
Only(S) == CHOOSE y \in S : TRUE

\* str::parse::<usize> of a slice that starts with a digit: its value, or
\* -1 for Err (a byte that is no digit).
RECURSIVE parse_from(_, _, _)
parse_from(s, i, acc) ==
    IF i > Len(s) THEN acc
    ELSE IF ~is_digit(s[i]) THEN -1
    ELSE parse_from(s, i + 1, acc * 10 + (ord[s[i]] - ord["0"]))

parse(s) ==
    Only({ IF t = <<>> THEN -1 ELSE parse_from(t, 1, 0) : t \in {s} })

\* str::find: the 1-based place of the first byte of s that is in set, or 0
\* for None.
find(s, set) ==
    Only({ IF \E i \in 1..Len(t) : t[i] \in set
           THEN CHOOSE i \in 1..Len(t) :
                    t[i] \in set /\ \A j \in 1..(i - 1) : t[j] \notin set
           ELSE 0 : t \in {s} })

Digits == { b \in DOMAIN ord : is_digit(b) }

\* The bytes after the first n of s.
drop(s, n) == SubSeq(s, n + 1, Len(s))

\* ------------------------------------------------------------------- stdin
\* read_exact of n bytes would wait for input: fewer bytes are there and
\* the stream has not ended.
would_block(in, n) == Len(in.bytes) < n /\ ~in.closed

\* io::stdin().read_exact on a buffer of n bytes.  At the end of the stream
\* it fails, having consumed the bytes that were left.
read_exact(in, n) ==
    IF Len(in.bytes) >= n
    THEN [ok |-> TRUE, buf |-> SubSeq(in.bytes, 1, n),
          stdin |-> [in EXCEPT !.bytes = drop(in.bytes, n)]]
    ELSE [ok |-> FALSE, buf |-> in.bytes,
          stdin |-> [in EXCEPT !.bytes = <<>>]]

\* ------------------------------------------------------------- the decoder
\* read_esc_seq_to_key with every sequence read as three bytes.
read_esc_seq_to_key_three_bytes(in) ==
    LET r == read_exact(in, 3) IN
    IF ~r.ok THEN [key |-> "None", stdin |-> r.stdin]
    ELSE [key |-> IF r.buf[1] = "[" /\ r.buf[3] = "~"
                  THEN CASE r.buf[2] \in {"1", "7"} -> "LineHome"
                         [] r.buf[2] \in {"4", "8"} -> "LineEnd"
                         [] r.buf[2] = "3" -> "Delete"
                         [] r.buf[2] = "5" -> "PageUp"
                         [] r.buf[2] = "6" -> "PageDown"
                         [] OTHER -> "None"
                  ELSE "None",
          stdin |-> r.stdin]

\* Editor::read_esc_seq_to_key: the key ("None" for None) and the stream
\* after the reads.
read_esc_seq_to_key(in) ==
    LET r == read_exact(in, 2) IN
    IF ~r.ok THEN [key |-> "None", stdin |-> r.stdin]
    ELSE IF r.buf[1] = "["
    THEN IF is_digit(r.buf[2])
         THEN LET r3 == read_exact(r.stdin, 1) IN
              IF ~r3.ok THEN [key |-> "None", stdin |-> r3.stdin]
              ELSE [key |-> IF r3.buf[1] = "~"
                            THEN CASE r.buf[2] \in {"1", "7"} -> "LineHome"
                                   [] r.buf[2] \in {"4", "8"} -> "LineEnd"
                                   [] r.buf[2] = "3" -> "Delete"
                                   [] r.buf[2] = "5" -> "PageUp"
                                   [] r.buf[2] = "6" -> "PageDown"
                                   [] OTHER -> "None"
                            ELSE "None",
                    stdin |-> r3.stdin]
         ELSE [key |-> CASE r.buf[2] = "A" -> "ArrowUp"
                         [] r.buf[2] = "B" -> "ArrowDown"
                         [] r.buf[2] = "C" -> "ArrowRight"
                         [] r.buf[2] = "D" -> "ArrowLeft"
                         [] r.buf[2] = "H" -> "LineHome"
                         [] OTHER -> "None",
               stdin |-> r.stdin]
    ELSE IF r.buf[1] = "O"
    THEN [key |-> CASE r.buf[2] = "H" -> "LineHome"
                    [] r.buf[2] = "F" -> "LineEnd"
                    [] OTHER -> "None",
          stdin |-> r.stdin]
    ELSE [key |-> "None", stdin |-> r.stdin]

\* The reads of read_esc_seq_to_key would wait for input.
esc_seq_would_block(in) ==
    \/ would_block(in, 2)
    \/ /\ Len(in.bytes) >= 2
       /\ in.bytes[1] = "[" /\ is_digit(in.bytes[2])
       /\ would_block([in EXCEPT !.bytes = drop(in.bytes, 2)], 1)

\* handle_input as a handler that moves the cursor right.
handle_input_moves(self, c) == cursor_right(self)

\* Editor::handle_input.
handle_input(self, c) == self

\* Editor::handle_key with the match of handle_esc_seq_key.
handle_key(self, c, in) ==
    IF c = "ESC"
    THEN LET d == read_esc_seq_to_key(in)
         IN  [editor |-> handle_esc_seq_key(self, d.key), stdin |-> d.stdin]
    ELSE [editor |-> handle_input(self, c), stdin |-> in]

\* The loop of Editor::run after its redraw, with a quit byte that is not
\* masked ('c' itself).
read_key_unmasked(self, in) ==
    LET r == read_exact(in, 1) IN
    IF ~r.ok THEN [editor |-> self, stdin |-> r.stdin, break |-> TRUE]
    ELSE IF r.buf[1] = "c"
    THEN [editor |-> self, stdin |-> r.stdin, break |-> TRUE]
    ELSE LET h == handle_key(self, r.buf[1], r.stdin)
         IN  [editor |-> h.editor, stdin |-> h.stdin, break |-> FALSE]

\* The loop of Editor::run after its redraw: one byte is read; a failed
\* read and ctrl_mask('c') break the loop, every other byte is handled.
read_key(self, in) ==
    LET r == read_exact(in, 1) IN
    IF ~r.ok THEN [editor |-> self, stdin |-> r.stdin, break |-> TRUE]
    ELSE IF r.buf[1] = ctrl_mask("c")
    THEN [editor |-> self, stdin |-> r.stdin, break |-> TRUE]
    ELSE LET h == handle_key(self, r.buf[1], r.stdin)
         IN  [editor |-> h.editor, stdin |-> h.stdin, break |-> FALSE]

\* The reads of one key would wait for input.
read_key_would_block(in) ==
    \/ would_block(in, 1)
    \/ /\ in.bytes /= <<>>
       /\ Head(in.bytes) = "ESC"
       /\ esc_seq_would_block([in EXCEPT !.bytes = Tail(in.bytes)])


\* ---------------------------------------------------------- the size query
\* The terminal's answer to ESC[6n with the cursor in its bottom right
\* corner: ESC [ rows ; cols R.
report(term) ==
    <<"ESC", "[">> \o to_string(term.rows) \o <<";">> \o to_string(term.cols)
        \o <<"R">>

\* The input stream once the terminal has put the first n bytes of its
\* answer behind the bytes that wait there; an answer that is cut short is
\* the end of the stream.  A stream that has ended gets no answer.
answered(in, term, n) ==
    IF in.closed THEN in
    ELSE [bytes |-> in.bytes \o SubSeq(report(term), 1, n),
          closed |-> n < Len(report(term))]

\* The loop of Editor::cursor_pos over io::stdin().bytes() would wait for
\* input: no 'R' is there and the stream has not ended.
cursor_pos_would_block(in) == find(in.bytes, {"R"}) = 0 /\ ~in.closed

\* The parse of the response in Editor::cursor_pos: it is searched for
\* ESC, the first digit and ';', and the two numbers are parsed.  A failed
\* unwrap or assert!, and row - 1 or col - 1 below zero, give ok = FALSE.
parse_response(response) ==
    Only({
        LET esc_pos == find(resp, {"ESC"}) IN
        IF esc_pos = 0 THEN [ok |-> FALSE, pos |-> [col |-> 0, row |-> 0]]
        ELSE Only({
            LET row_pos == find(after_esc, Digits)
                semicolon_pos == find(after_esc, {";"})
            IN  IF row_pos = 0 \/ semicolon_pos = 0 \/ ~(row_pos < semicolon_pos)
                THEN [ok |-> FALSE, pos |-> [col |-> 0, row |-> 0]]
                ELSE Only({
                    LET row == parse(SubSeq(after_esc, row_pos, semicolon_pos - 1))
                        col_pos == find(from_semicolon, Digits)
                        col == parse(drop(from_semicolon, col_pos - 1))
                    IN  IF \/ row < 0
                           \/ col_pos = 0
                           \/ col < 0
                           \/ col - 1 < 0
                           \/ row - 1 < 0
                        THEN [ok |-> FALSE, pos |-> [col |-> 0, row |-> 0]]
                        ELSE [ok |-> TRUE,
                              pos |-> [col |-> col - 1, row |-> row - 1]]
                    : from_semicolon \in {drop(after_esc, semicolon_pos - 1)} })
            : after_esc \in {drop(resp, esc_pos)} })
        : resp \in {response} })

\* Editor::cursor_pos: the bytes up to the first 'R', or up to the end of
\* the stream, are the response; the bytes behind the 'R' stay in the
\* stream.
cursor_pos(in) ==
    Only({
        LET r_at == find(bytes, {"R"})
            p == parse_response(IF r_at > 0 THEN SubSeq(bytes, 1, r_at - 1)
                                ELSE bytes)
        IN  [ok |-> p.ok, pos |-> p.pos,
             stdin |-> [in EXCEPT !.bytes = IF r_at > 0 THEN drop(bytes, r_at)
                                             ELSE <<>>]]
        : bytes \in {in.bytes} })

\* ------------------------------------------------------------- the painter
\* Editor::defer_esc_seq: ESC [ cmd is appended to write_buf.
defer_esc_seq(self, cmd) ==
    [self EXCEPT !.write_buf = @ \o <<"ESC", "[">> \o cmd]

\* Editor::move_cursor, hide_cursor, show_cursor, clear_screen, clear_row.
move_cursor(self, pos) ==
    defer_esc_seq(self, to_string(pos.row + 1) \o <<";">>
                            \o to_string(pos.col + 1) \o <<"H">>)
hide_cursor(self) == defer_esc_seq(self, <<"?", "2", "5", "l">>)
show_cursor(self) == defer_esc_seq(self, <<"?", "2", "5", "h">>)
clear_screen(self) == defer_esc_seq(self, <<"2", "J">>)
clear_row(self) == defer_esc_seq(self, <<"K">>)

\* The rows of one line with every row one byte narrower than the window.
RECURSIVE line_rows_narrow(_, _, _, _)
line_rows_narrow(render, offset, rows_left, width) ==
    IF Len(render) - offset <= 0 \/ rows_left <= 0 \/ width <= 1 THEN <<>>
    ELSE LET end == offset + Min(width - 1, Len(render) - offset)
         IN  <<SubSeq(render, offset + 1, end)>>
                 \o line_rows_narrow(render, end, rows_left - 1, width)

\* The loop "while n_bytes_left > 0 && n_rows_drawn < window_height" of
\* Editor::build_rows: the rows drawn of one line from offset on, with
\* rows_left window rows to draw in.
RECURSIVE line_rows(_, _, _, _)
line_rows(render, offset, rows_left, width) ==
    IF Len(render) - offset <= 0 \/ rows_left <= 0 \/ width <= 0 THEN <<>>
    ELSE LET end == offset + Min(width, Len(render) - offset)
         IN  <<SubSeq(render, offset + 1, end)>>
                 \o line_rows(render, end, rows_left - 1, width)

\* The rows Editor::build_rows draws of one line: one cleared row for a
\* line with no bytes left, else the rows of the loop.
draw_line(render, offset, rows_left, width) ==
    IF Len(render) - offset = 0 THEN << <<>> >>
    ELSE line_rows(render, offset, rows_left, width)

\* The bytes of the rows of a line with bytes: ESC[K, the row, \r\n.
RECURSIVE rows_bytes(_)
rows_bytes(rows) ==
    IF rows = <<>> THEN <<>>
    ELSE <<"ESC", "[", "K">> \o Head(rows) \o <<"\r", "\n">>
             \o rows_bytes(Tail(rows))

\* "for _ in 1..(n_empty_rows)": ~\r\n and clear_row, once for every
\* number from 1 to n_empty_rows - 1.
RECURSIVE fill_rows(_, _)
fill_rows(i, n_empty_rows) ==
    IF i >= n_empty_rows THEN <<>>
    ELSE <<"~", "\r", "\n", "ESC", "[", "K">> \o fill_rows(i + 1, n_empty_rows)

\* The loop of Editor::build_rows over the lines from lines[i] on, and the
\* filler after it: the bytes appended to write_buf.
RECURSIVE build_rows_from(_, _, _)
build_rows_from(self, i, n_rows_drawn) ==
    IF i >= Len(self.lines) \/ n_rows_drawn = self.window_height
    THEN fill_rows(1, self.window_height - n_rows_drawn)
    ELSE LET render == self.lines[i + 1].render
             offset == IF n_rows_drawn = 0 THEN self.line_offset_byte ELSE 0
             rows == draw_line(render, offset,
                               self.window_height - n_rows_drawn,
                               self.window_width)
         IN  (IF Len(render) - offset = 0
              THEN <<"ESC", "[", "K">>
                       \o (IF n_rows_drawn + 1 < self.window_height
                           THEN <<"\r", "\n">> ELSE <<" ">>)
              ELSE rows_bytes(rows))
             \o build_rows_from(self, i + 1, n_rows_drawn + Len(rows))

\* Editor::build_rows.
build_rows(self) ==
    [self EXCEPT !.write_buf = @ \o build_rows_from(self, self.line_offset, 0)]

\* n bytes ' '.
RECURSIVE spaces(_)
spaces(n) == IF n <= 0 THEN <<>> ELSE <<" ">> \o spaces(n - 1)

\* Editor::build_status_bar (window_width >= n_used_bytes is checked by
\* refresh_screen before).
build_status_bar(self) ==
    LET sep == <<" ", "|", " ">>
        line_count == to_string(Len(self.lines))
                          \o (IF Len(self.lines) = 1
                              THEN <<" ", "l", "i", "n", "e">>
                              ELSE <<" ", "l", "i", "n", "e", "s">>)
        cursor_pos_text == to_string(self.cursor.line) \o <<":">>
                               \o to_string(self.cursor.pos.col)
        used == Len(cursor_pos_text) + Len(line_count) + Len(sep)
        n_path_bytes == Min(self.window_width - used, Len(self.path))
        s1 == defer_esc_seq(defer_esc_seq(self, <<"1", "m">>), <<"7", "m">>)
        s2 == [s1 EXCEPT !.write_buf =
                  @ \o SubSeq(self.path, 1, n_path_bytes)
                    \o spaces(self.window_width - (used + n_path_bytes))
                    \o cursor_pos_text \o sep \o line_count]
    IN  defer_esc_seq(s2, <<"m">>)

\* ------------------------------------------------------ the status message
\* Editor::write_status_msg.
write_status_msg(self) ==
    [self EXCEPT !.write_buf =
        @ \o SubSeq(self.status_msg.data, 1,
                    Min(self.window_width, Len(self.status_msg.data)))]

\* Editor::new_status_msg at time now.
new_status_msg(self, msg, timeout, now) ==
    write_status_msg([self EXCEPT !.status_msg =
                         [data |-> msg, timestamp |-> now, timeout |-> timeout]])

\* update_status_msg with the test now - timestamp < timeout.
update_status_msg_early(self, now) ==
    IF now - self.status_msg.timestamp < self.status_msg.timeout
    THEN write_status_msg(self)
    ELSE [self EXCEPT !.status_msg.data = <<>>]

\* Editor::update_status_msg at time now.
update_status_msg(self, now) ==
    IF now - self.status_msg.timestamp <= self.status_msg.timeout
    THEN write_status_msg(self)
    ELSE [self EXCEPT !.status_msg.data = <<>>]

\* "HELP: Ctrl-C to quit" and Duration::from_secs(5) in Editor::run.
HelpMsg ==
    <<"H", "E", "L", "P", ":", " ", "C", "t", "r", "l", "-", "C", " ", "t",
      "o", " ", "q", "u", "i", "t">>
HelpSecs == 5

\* ---------------------------------------------------------------- the redraw
\* send_esc_seq (println!) of 999C, 999B and 6n in update_window_size and
\* cursor_pos: written to the terminal at once.
SizeQuery ==
    <<"ESC", "[", "9", "9", "9", "C", "\n",
      "ESC", "[", "9", "9", "9", "B", "\n",
      "ESC", "[", "6", "n", "\n">>

\* The frame of Editor::refresh_screen after update_window_size, in
\* write_buf: hide_cursor, move_cursor, build_rows, build_status_bar,
\* update_status_msg, move_cursor, show_cursor, ?25h.
frame(self, now) ==
    Only({ Only({ Only({ Only({
        defer_esc_seq(show_cursor(move_cursor(s4, s4.cursor.pos)),
                      <<"?", "2", "5", "h">>)
        : s4 \in {update_status_msg(s3, now)} })
        : s3 \in {build_status_bar(s2)} })
        : s2 \in {build_rows(s1)} })
        : s1 \in {move_cursor(hide_cursor(self), [row |-> 0, col |-> 0])} })

\* Editor::refresh_screen on the input stream in at time now: the size is
\* taken from the answer that cursor_pos parses, the frame is built in
\* write_buf and flush_write_buf writes and clears it.  A panic leaves
\* write_buf unwritten.
redraw(self, in, now) ==
    Only({
        IF ~q.ok
        THEN [editor |-> Panic(self), stdin |-> q.stdin, stdout |-> SizeQuery]
        ELSE Only({
            IF s1.status /= "running"
            THEN [editor |-> s1, stdin |-> q.stdin, stdout |-> SizeQuery]
            ELSE Only({ [editor |-> [s2 EXCEPT !.write_buf = <<>>],
                         stdin |-> q.stdin,
                         stdout |-> SizeQuery \o s2.write_buf]
                        : s2 \in {frame(s1, now)} })
            : s1 \in {refresh_screen(self, [rows |-> q.pos.row + 1,
                                            cols |-> q.pos.col + 1])} })
        : q \in {cursor_pos(in)} })

\* ------------------------------------------------ the byte-level state machine
\* impl Drop for Editor: clear_screen appends ESC[2J to write_buf.
drop_editor(self) == clear_screen(self)

\* The bytes a user types.
InBytes == DOMAIN ord \ {"c"}

\* What is typed in one go: a byte, an ESC with one, two or (after '[' and
\* a digit) three bytes behind it, or two keys one after the other.
BurstKeys ==
    {<<"x">>, <<"ETX">>, <<"R">>, <<"ESC", "[", "B">>, <<"ESC", "[", "5", "~">>}
Typed ==
    {<<b>> : b \in InBytes}
      \cup {<<"ESC", a>> : a \in InBytes}
      \cup {<<"ESC", a, b>> : a \in InBytes, b \in InBytes}
      \cup {<<"ESC", "[", d, b>> : d \in Digits, b \in InBytes}
      \cup {a \o b : a \in BurstKeys, b \in BurstKeys}

\* The arrow keys as the terminal sends them.
ArrowSeqs == {<<"ESC", "[", a>> : a \in {"A", "B", "C", "D"}}

\* The file of the byte-level runs: three short lines, the second empty.
IOFiles == {FileOf(<<3, 0, 2>>)}

\* main() is about to start, with or without a file argument, and the file
\* may or may not open; the terminal is in its original mode.
InitIO ==
    /\ \E buf \in IOFiles : editor = open_file(buf)
    /\ \E cols \in Widths : terminal = [rows |-> 3 + 2, cols |-> cols]
    /\ stdin = [bytes |-> <<>>, closed |-> FALSE]
    /\ stdout = <<>>
    /\ \E argc \in {1, 2}, openable \in BOOLEAN :
           process = [pc |-> "main", termios |-> "orig", argc |-> argc,
                      openable |-> openable]
    /\ clock = 0

\* main() up to Editor::run: the terminal mode is saved and raw mode is
\* entered; without a file argument main goes on to restore the mode, and
\* the unwrap of a failed open_file panics.
Main ==
    /\ process.pc = "main"
    /\ process' = [process EXCEPT
                      !.termios = "raw",
                      !.pc = IF process.argc > 1
                             THEN (IF process.openable THEN "run" ELSE "aborted")
                             ELSE "returned"]
    /\ editor' = [editor EXCEPT !.status_msg.timestamp = clock]
    /\ UNCHANGED <<terminal, stdin, stdout, clock>>

\* What a panic leaves of the editor: the unwinding drops it.
unwound(self) == IF self.status = "panicked" THEN drop_editor(self) ELSE self

\* The position of main() after a step that left the editor as self.
pc_after(self, next) ==
    CASE self.status = "panicked" -> "aborted"
      [] self.status = "hung" -> "hung"
      [] OTHER -> next

\* Editor::run before its loop: the first refresh_screen and
\* new_status_msg.
Boot ==
    /\ process.pc = "run"
    /\ \E in \in {answered(stdin, terminal, Len(report(terminal)))} :
       /\ ~cursor_pos_would_block(in)
       /\ \E r \in {redraw([editor EXCEPT !.status = "running"], in, clock)} :
          /\ editor' = IF r.editor.status = "running"
                       THEN new_status_msg(r.editor, HelpMsg, HelpSecs, clock)
                       ELSE unwound(r.editor)
          /\ stdin' = r.stdin
          /\ stdout' = r.stdout
          /\ process' = [process EXCEPT !.pc = pc_after(r.editor, "redraw")]
    /\ UNCHANGED <<terminal, clock>>

\* The refresh_screen at the top of the loop of Editor::run, the terminal
\* giving the first n bytes of its answer.
Refresh(n) ==
    /\ process.pc = "redraw"
    /\ \E in \in {answered(stdin, terminal, n)} :
       /\ ~cursor_pos_would_block(in)
       /\ \E r \in {redraw(editor, in, clock)} :
          /\ editor' = unwound(r.editor)
          /\ stdin' = r.stdin
          /\ stdout' = r.stdout
          /\ process' = [process EXCEPT !.pc = pc_after(r.editor, "read")]
    /\ UNCHANGED <<terminal, clock>>

Redraw == Refresh(Len(report(terminal)))

\* The terminal goes away in the middle of its answer.
RedrawCut ==
    /\ ~stdin.closed
    /\ \E n \in 1..(Len(report(terminal)) - 1) : Refresh(n)

\* The rest of the loop of Editor::run: the read of a key and its handler.
Key ==
    /\ process.pc = "read"
    /\ ~read_key_would_block(stdin)
    /\ \E k \in {read_key(editor, stdin)} :
       /\ editor' = unwound(k.editor)
       /\ stdin' = k.stdin
       /\ process' = [process EXCEPT
                         !.pc = IF k.break THEN "returned"
                                ELSE pc_after(k.editor, "redraw")]
    /\ UNCHANGED <<terminal, stdout, clock>>

\* main() after Editor::run (or without a file argument): the editor, if
\* there is one, is dropped and the saved terminal mode is set again.
Exit ==
    /\ process.pc = "returned"
    /\ editor' = IF editor.status = "new" THEN editor ELSE drop_editor(editor)
    /\ process' = [process EXCEPT !.pc = "exited", !.termios = "orig"]
    /\ UNCHANGED <<terminal, stdin, stdout, clock>>

\* The user types seq while the editor waits for a key.
Type(seq) ==
    /\ process.pc = "read"
    /\ stdin = [bytes |-> <<>>, closed |-> FALSE]
    /\ stdin' = [stdin EXCEPT !.bytes = seq]
    /\ UNCHANGED <<editor, terminal, stdout, process, clock>>

TypeBytes == \E seq \in Typed : Type(seq)
TypeArrow == \E seq \in ArrowSeqs : Type(seq)

\* The input stream ends (the terminal goes away).
Hangup ==
    /\ process.pc \in {"run", "redraw", "read"}
    /\ ~stdin.closed
    /\ stdin' = [stdin EXCEPT !.closed = TRUE]
    /\ UNCHANGED <<editor, terminal, stdout, process, clock>>

\* A second passes.
MaxClock == 7
Tick ==
    /\ process.pc \in {"run", "redraw", "read"}
    /\ clock < MaxClock
    /\ clock' = clock + 1
    /\ UNCHANGED <<editor, terminal, stdin, stdout, process>>

\* The editor on a byte stream: everything the user may type, and a
\* terminal that may go away; no time passes.
NextIO ==
    \/ Main
    \/ Boot
    \/ Redraw
    \/ RedrawCut
    \/ Key
    \/ Exit
    \/ TypeBytes
    \/ Hangup

SpecIO == InitIO /\ [][NextIO]_vars

\* The editor under the arrow keys while time passes.
NextClock ==
    \/ Main
    \/ Boot
    \/ Redraw
    \/ Key
    \/ Exit
    \/ TypeArrow
    \/ Tick

SpecClock == InitIO /\ [][NextClock]_vars


\* ------------------------------------------------ properties of the byte level
\* A step that is the read of a key with its handler, and one that is a
\* redraw of the loop.
KeyStep == process.pc = "read" /\ process'.pc /= "read"
RefreshStep == process.pc = "redraw" /\ process'.pc /= "redraw"

\* s ends with t; s holds t.
ends_with(s, t) ==
    Len(s) >= Len(t) /\ SubSeq(s, Len(s) - Len(t) + 1, Len(s)) = t
contains(s, t) ==
    \E i \in 0..(Len(s) - Len(t)) : SubSeq(s, i + 1, i + Len(t)) = t

\* The bytes of an escape sequence that starts the bytes b (ESC, two bytes,
\* and one more after '[' and a digit), and the key it stands for.
EscLength(b) ==
    IF Len(b) >= 3 /\ b[2] = "["
       /\ b[3] \in {"0", "1", "2", "3", "4", "5", "6", "7", "8", "9"}
    THEN 4 ELSE 3
EscKey(b) ==
    IF EscLength(b) = 4
    THEN (IF b[4] /= "~" THEN "None"
          ELSE CASE b[3] \in {"1", "7"} -> "LineHome"
                 [] b[3] \in {"4", "8"} -> "LineEnd"
                 [] b[3] = "3" -> "Delete"
                 [] b[3] = "5" -> "PageUp"
                 [] b[3] = "6" -> "PageDown"
                 [] OTHER -> "None")
    ELSE CASE b[2] = "[" /\ b[3] = "A" -> "ArrowUp"
           [] b[2] = "[" /\ b[3] = "B" -> "ArrowDown"
           [] b[2] = "[" /\ b[3] = "C" -> "ArrowRight"
           [] b[2] = "[" /\ b[3] = "D" -> "ArrowLeft"
           [] b[2] = "[" /\ b[3] = "H" -> "LineHome"
           [] b[2] = "O" /\ b[3] = "H" -> "LineHome"
           [] b[2] = "O" /\ b[3] = "F" -> "LineEnd"
           [] OTHER -> "None"

\* C12: a key read that finds ESC and the whole sequence behind it applies
\* the key of the table (ESC [ A/B/C/D/H, ESC [ d ~, ESC O H/F; no key and
\* Delete change nothing) and takes exactly ESC, two bytes and, after '['
\* and a digit, one more from the stream: the byte behind them is the next
\* one in the stream.
C12_EscapeDecoding ==
    [][ (/\ KeyStep
         /\ stdin.bytes /= <<>>
         /\ Head(stdin.bytes) = "ESC"
         /\ Len(stdin.bytes) >= EscLength(stdin.bytes))
        =>
        /\ stdin'.bytes = drop(stdin.bytes, EscLength(stdin.bytes))
        /\ SameCursorAndViewport(
               editor', handle_esc_seq_key(editor, EscKey(stdin.bytes)))
        /\ (EscKey(stdin.bytes) \in {"None", "Delete"} => editor' = editor)
        /\ process'.pc = "redraw" ]_vars

\* C12's case: ESC [ 5 ~ and a byte behind it wait with the cursor on the
\* last line; the read moves the cursor a page up and leaves that byte.
C12_Witness ==
    /\ process.pc = "read"
    /\ stdin.bytes = <<"ESC", "[", "5", "~", "x">>
    /\ editor.cursor.line = 2
    /\ read_key(editor, stdin).stdin.bytes = <<"x">>
    /\ read_key(editor, stdin).editor.cursor.line = 0

\* The stream ends inside the escape sequence that starts the bytes b.
Truncated(b) ==
    \/ Len(b) < 3
    \/ Len(b) = 3 /\ EscLength(b) = 4

\* C13: when the stream ends after an ESC and before its sequence is
\* complete, the key read changes neither cursor nor viewport, the loop
\* goes on, and its next redraw does not abort.
C13_TruncatedEscapeNotFatal ==
    [][ (/\ KeyStep
         /\ stdin.closed
         /\ stdin.bytes /= <<>>
         /\ Head(stdin.bytes) = "ESC"
         /\ Truncated(stdin.bytes))
        =>
        /\ editor'.cursor = editor.cursor
        /\ Viewport(editor') = Viewport(editor)
        /\ process'.pc = "redraw"
        /\ redraw(editor', stdin', clock').editor.status = "running" ]_vars

\* C14: a redraw whose size query meets the end of the stream before an
\* 'R' aborts the process, and no frame is written.
C14_GeometryFailureFatal ==
    [][ (/\ RefreshStep
         /\ stdin'.closed
         /\ find(stdin.bytes, {"R"}) = 0)
        =>
        /\ process'.pc = "aborted"
        /\ stdout' = SizeQuery ]_vars

\* The key read finds the quit byte 0x03 or the end of the stream.
QuitRead == stdin.bytes = <<>> \/ Head(stdin.bytes) = "ETX"

\* C15: a key read leaves the loop exactly when it finds 0x03 or the end
\* of the stream, no other step of the running editor leaves it, and that
\* step changes nothing of the editor, writes nothing and does not abort.
C15_LoopExit ==
    [][ /\ (KeyStep => (process'.pc = "returned" <=> QuitRead))
        /\ ((process.pc \in {"run", "redraw", "read"}
               /\ process'.pc = "returned")
            => /\ KeyStep
               /\ QuitRead
               /\ editor' = editor
               /\ stdout' = stdout) ]_vars

\* C15's case: the loop was left on 0x03 (the stream has not ended).
C15_Witness ==
    /\ process.pc = "returned"
    /\ editor.status = "running"
    /\ ~stdin.closed

\* C16: once the process is over, by the return of main() or by a panic,
\* the terminal is in the mode saved before raw mode.
C16_TerminalModeRestored ==
    process.pc \in {"exited", "aborted"} => process.termios = "orig"

\* C17: once a process that ran the editor is over, ESC[2J is among the
\* bytes last written to the terminal.
C17_ScreenClearedOnExit ==
    (process.pc \in {"exited", "aborted"} /\ editor.status /= "new")
    => contains(stdout, <<"ESC", "[", "2", "J">>)

\* The end of a frame behind the status message: move_cursor to the
\* cursor, show_cursor and ?25h.
FrameEnd(self) ==
    <<"ESC", "[">> \o to_string(self.cursor.pos.row + 1) \o <<";">>
        \o to_string(self.cursor.pos.col + 1)
        \o <<"H", "ESC", "[", "?", "2", "5", "h", "ESC", "[", "?", "2", "5", "h">>

MaxTabLine == 4
TabLines == UNION { [1..n -> {"x", "\t"}] : n \in 0..MaxTabLine }

\* The key-level runs on a file of one such line.
InitTabs ==
    /\ \E line \in TabLines : editor = open_file(line)
    /\ \E cols \in Widths, h \in Heights : terminal = [rows |-> h + 2, cols |-> cols]
    /\ Opened

SpecTabs == InitTabs /\ [][Next]_vars

\* C19: in every line of the editor the rendered form copies the bytes that
\* are not tabs, in order, puts one or more spaces for every tab, and the
\* rendered length just behind the spaces of every tab is a multiple of
\* tab_width; so the rendered form is at least as long as the original.
C19_TabExpansion ==
    \A i \in 1..Len(editor.lines) :
        LET orig == editor.lines[i].orig
            render == editor.lines[i].render
            upto(p) == Len(line_orig_to_render(SubSeq(orig, 1, p)))
        IN  /\ render = line_orig_to_render(orig)
            /\ SelectSeq(render, LAMBDA b : b /= " ")
                 = SelectSeq(orig, LAMBDA b : b /= "\t")
            /\ \A p \in 1..Len(orig) :
                   orig[p] = "\t"
                   => /\ upto(p) > upto(p - 1)
                      /\ upto(p) % tab_width = 0
            /\ Len(render) >= Len(orig)


\* ------------------------------------------------------- files that wrap
\* Files of one line of up to MaxPaintLen bytes, alone or behind a line of
\* one byte.
MaxPaintLen == 42
PaintFiles ==
    {FileOf(<<k>>) : k \in 0..MaxPaintLen}
        \cup {FileOf(<<1, k>>) : k \in 0..MaxPaintLen}

\* The byte-level runs on such a file with nothing typed: the file is
\* drawn, until the input stream ends.
InitPaint ==
    /\ \E buf \in PaintFiles : editor = open_file(buf)
    /\ \E cols \in Widths, h \in Heights : terminal = [rows |-> h + 2, cols |-> cols]
    /\ stdin = [bytes |-> <<>>, closed |-> FALSE]
    /\ stdout = <<>>
    /\ process = [pc |-> "main", termios |-> "orig", argc |-> 2, openable |-> TRUE]
    /\ clock = 0

NextPaint == Main \/ Boot \/ Redraw \/ Key \/ Exit \/ Hangup

SpecPaint == InitPaint /\ [][NextPaint]_vars

\* The rows of a line of k bytes in a window w wide, and the length of
\* its row j (from 1).
RowsOf(k, w) == IF k = 0 THEN 1 ELSE (k + w - 1) \div w
RowLen(k, w, j) == IF j < RowsOf(k, w) THEN w ELSE k - (RowsOf(k, w) - 1) * w

\* The bytes of these rows on the terminal, each cleared, written and
\* ended by \r\n (the row of an empty line on the last window row is
\* ended by a space).
ExpectLine(k, w, on_last_row) ==
    LET upto[j \in 0..RowsOf(k, w)] ==
            IF j = 0 THEN <<>>
            ELSE upto[j - 1] \o <<"ESC", "[", "K">> \o Xs(RowLen(k, w, j))
                     \o <<"\r", "\n">>
    IN  IF k = 0
        THEN <<"ESC", "[", "K">> \o (IF on_last_row THEN <<" ">> ELSE <<"\r", "\n">>)
        ELSE upto[RowsOf(k, w)]

\* The rows and the bytes of the lines 1..n of the editor self.
RowsUpTo(self, n) ==
    LET sum[i \in 0..n] ==
            IF i = 0 THEN 0
            ELSE sum[i - 1] + RowsOf(Len(self.lines[i].render), self.window_width)
    IN  sum[n]
ExpectText(self) ==
    LET upto[i \in 0..Len(self.lines)] ==
            IF i = 0 THEN <<>>
            ELSE upto[i - 1]
                     \o ExpectLine(Len(self.lines[i].render), self.window_width,
                                   RowsUpTo(self, i) = self.window_height)
    IN  upto[Len(self.lines)]

\* C20: in a frame drawn from the first byte of the file with window rows
\* enough for all its lines, every line of k bytes takes max(1, ceil(k/w))
\* rows and no more (the filler or the status bar follows), every row but
\* the last of a line is w bytes long, and the last row of a line with
\* bytes is k - (rows-1)*w bytes long, which is between 1 and w.
C20_RowsOccupied ==
    (/\ process.pc = "read"
     /\ Running
     /\ RowsUpTo(editor, Len(editor.lines)) <= editor.window_height)
    =>
    /\ \E after \in {<<"~">>, <<"ESC", "[", "1", "m">>} :
           contains(stdout,
                    <<"ESC", "[", "?", "2", "5", "l", "ESC", "[", "1", ";", "1", "H">>
                        \o ExpectText(editor) \o after)
    /\ \A i \in 1..Len(editor.lines) :
           LET k == Len(editor.lines[i].render)
               w == editor.window_width
           IN  k > 0 => RowLen(k, w, RowsOf(k, w)) \in 1..w

\* C20's case: a line of 30 bytes is drawn in a window of 14 columns and
\* 3 rows as rows of 14, 14 and 2 bytes, and the status bar follows.
C20_Witness ==
    /\ process.pc = "read"
    /\ Running
    /\ editor.window_width = 14
    /\ editor.window_height = 3
    /\ Len(editor.lines) = 1
    /\ Len(editor.lines[1].render) = 30
    /\ contains(stdout,
                <<"ESC", "[", "K">> \o Xs(14) \o <<"\r", "\n">>
                    \o <<"ESC", "[", "K">> \o Xs(14) \o <<"\r", "\n">>
                    \o <<"ESC", "[", "K", "x", "x", "\r", "\n">>
                    \o <<"ESC", "[", "1", "m">>)


\* ------------------------------------------------- input that is no command
\* The bytes b start with an ordinary byte, with the sequence of Delete,
\* with a sequence that is no key, or with one the end of the stream cuts.
NonNavigation(b, closed) ==
    \/ b[1] \notin {"ESC", "ETX"}
    \/ /\ b[1] = "ESC"
       /\ Len(b) >= EscLength(b)
       /\ EscKey(b) \in {"Delete", "None"}
    \/ b[1] = "ESC" /\ closed /\ Truncated(b)

\* C21: a key read that finds an ordinary byte (not ESC, not 0x03), the
\* Delete key or a sequence that is no key leaves the cursor, line_offset,
\* line_offset_byte and the lines as they were.
C21_NonNavigationNoEffect ==
    [][ (/\ KeyStep
         /\ stdin.bytes /= <<>>
         /\ NonNavigation(stdin.bytes, stdin.closed))
        =>
        /\ editor'.cursor = editor.cursor
        /\ editor'.line_offset = editor.line_offset
        /\ editor'.line_offset_byte = editor.line_offset_byte
        /\ editor'.lines = editor.lines ]_vars

\* C21's case: the Delete key waits with the cursor on the last line,
\* and the read takes its four bytes and leaves the editor as it is.
C21_Witness ==
    /\ process.pc = "read"
    /\ stdin.bytes = <<"ESC", "[", "3", "~">>
    /\ editor.cursor.line = 2
    /\ read_key(editor, stdin).stdin.bytes = <<>>
    /\ read_key(editor, stdin).editor = editor


\* ------------------------------------------------------ horizontal moves
\* The editor on the lines "abc", "" and "de" in a window 5 wide and h
\* high, before any key.
AbcDe(h) ==
    [open_file(<<"a", "b", "c", "\n", "\n", "d", "e">>) EXCEPT
        !.window_width = 5, !.window_height = h, !.status = "running"]

\* C22: Right moves exactly when cursor.byte + 1 is below the line's
\* length and cursor.pos.col + 1 below window_width; then byte and col
\* grow by one, inside the row and the line, and line, row and viewport
\* stay; else nothing changes, and the redraw behind the key changes
\* nothing of this.  On "abc", "", "de" in 5 columns two Downs reach
\* {line 2, byte 0}, a Right {line 2, byte 1}, a second Right nothing
\* (in windows of two rows and more).
C22_RightGuardAndEffect ==
    /\ Running =>
         LET c == editor.cursor
             r == cursor_right(editor)
         IN  /\ IF /\ c.byte + 1 < Len(editor.lines[c.line + 1].render)
                   /\ c.pos.col + 1 < editor.window_width
                THEN /\ r.cursor.byte = c.byte + 1
                     /\ r.cursor.pos.col = c.pos.col + 1
                     /\ r.cursor.line = c.line
                     /\ r.cursor.pos.row = c.pos.row
                     /\ Viewport(r) = Viewport(editor)
                     /\ r.lines = editor.lines
                     /\ r.status = "running"
                     /\ r.cursor.byte < Len(editor.lines[c.line + 1].render)
                     /\ r.cursor.pos.col < editor.window_width
                ELSE r = editor
             /\ SameCursorAndViewport(turn(editor, "ArrowRight", terminal), r)
    /\ \A h \in Heights \ {1} :
         LET d2 == cursor_down(cursor_down(AbcDe(h)))
             r1 == cursor_right(d2)
         IN  /\ d2.cursor.line = 2 /\ d2.cursor.byte = 0
             /\ r1.cursor.line = 2 /\ r1.cursor.byte = 1
             /\ cursor_right(r1) = r1

\* C22's case: on the second row of a 17-byte line, one byte before the
\* last, Right moves to the last byte and a second Right does nothing.
C22_Witness ==
    /\ Running
    /\ Len(editor.lines[editor.cursor.line + 1].render) = 17
    /\ editor.cursor.byte = 15
    /\ editor.cursor.pos.col = 1
    /\ cursor_right(editor).cursor.byte = 16
    /\ cursor_right(editor).cursor.pos.col = 2
    /\ cursor_right(cursor_right(editor)) = cursor_right(editor)


\* The last occupied column of the row that holds the cursor of self: the
\* row starts at the multiple of window_width at or below cursor.byte and
\* holds the line's bytes from there, window_width at most.
LastOccupiedCol(self) ==
    LET k == Len(self.lines[self.cursor.line + 1].render)
        w == self.window_width
        start == (self.cursor.byte \div w) * w
    IN  IF k = 0 THEN 0 ELSE Min(w, k - start) - 1

\* C23: after a Right that moved, is_at_eol is set exactly when the new
\* column is the last occupied column of the cursor's row ((length - 1)
\* mod window_width on the final row of a wrapped line); a Left made on
\* the last occupied column of its row leaves is_at_eol cleared.
C23_RowEndUnderHorizontalMoves ==
    (Running /\ editor.cursor.byte < Len(editor.lines[editor.cursor.line + 1].render))
    =>
    /\ LET r == cursor_right(editor)
       IN  r.cursor.byte /= editor.cursor.byte
           => (r.cursor.is_at_eol <=> r.cursor.pos.col = LastOccupiedCol(r))
    /\ LET l == cursor_left(editor)
       IN  (l.cursor.byte /= editor.cursor.byte
              /\ editor.cursor.pos.col = LastOccupiedCol(editor))
           => ~l.cursor.is_at_eol


\* --------------------------------------------------------- vertical moves
\* The cursor of self is on a byte of its line (byte 0 of an empty one)
\* and its column is the place of that byte in its row.
OnAByte(self) ==
    LET k == Len(self.lines[self.cursor.line + 1].render)
    IN  /\ self.cursor.byte < (IF k = 0 THEN 1 ELSE k)
        /\ self.cursor.pos.col = self.cursor.byte % self.window_width

\* The row below and the row above the row of the cursor of self, as line
\* and row of the line; line -1 when there is none.
NoRow == [line |-> -1, row |-> 0]
RowBelow(self) ==
    LET c == self.cursor
        w == self.window_width
        k == Len(self.lines[c.line + 1].render)
    IN  IF (c.byte \div w) + 1 < RowsOf(k, w)
        THEN [line |-> c.line, row |-> (c.byte \div w) + 1]
        ELSE IF c.line + 1 < Len(self.lines)
        THEN [line |-> c.line + 1, row |-> 0]
        ELSE NoRow
RowAbove(self) ==
    LET c == self.cursor
        w == self.window_width
    IN  IF c.byte \div w > 0
        THEN [line |-> c.line, row |-> (c.byte \div w) - 1]
        ELSE IF c.line > 0
        THEN [line |-> c.line - 1,
              row |-> RowsOf(Len(self.lines[c.line].render), w) - 1]
        ELSE NoRow

\* The last occupied column of the row at of self (0 on an empty line).
LastColOf(self, at) ==
    LET k == Len(self.lines[at.line + 1].render)
        w == self.window_width
    IN  IF k = 0 THEN 0 ELSE Min(w, k - at.row * w) - 1

\* C24: Up, Down, PageUp and PageDown leave is_at_eol as it is, and with
\* is_at_eol set an Up or a Down from a byte of a line to the row above
\* or below leaves cursor.pos.col on the last occupied column of that row
\* (in windows of two rows and more).
C24_StickyEndOfRow ==
    Running =>
    /\ \A key \in {"ArrowUp", "ArrowDown", "PageUp", "PageDown"} :
           handle_esc_seq_key(editor, key).cursor.is_at_eol
               = editor.cursor.is_at_eol
    /\ (editor.cursor.is_at_eol /\ OnAByte(editor) /\ editor.window_height >= 2)
       => /\ RowBelow(editor) /= NoRow
             => /\ cursor_down(editor).status = "running"
                /\ cursor_down(editor).cursor.line = RowBelow(editor).line
                /\ cursor_down(editor).cursor.pos.col
                     = LastColOf(editor, RowBelow(editor))
          /\ RowAbove(editor) /= NoRow
             => /\ cursor_up(editor).status = "running"
                /\ cursor_up(editor).cursor.line = RowAbove(editor).line
                /\ cursor_up(editor).cursor.pos.col
                     = LastColOf(editor, RowAbove(editor))


\* --------------------------------------------------------------- scrolling
\* Everything of the editor a but its viewport is as in b.
SameButViewport(a, b) ==
    [a EXCEPT !.line_offset = b.line_offset,
              !.line_offset_byte = b.line_offset_byte] = b

\* C25: scroll_down, called as cursor_down calls it with the cursor on the
\* last window row, and scroll_up, called as cursor_up calls it with the
\* cursor on the top row, change nothing but line_offset and
\* line_offset_byte: cursor.pos, cursor.line, cursor.byte and is_at_eol
\* stay.
C25_ScrollFrame ==
    Running =>
    /\ editor.cursor.pos.row + 1 = editor.window_height
       => SameButViewport(scroll_down(editor), editor)
    /\ editor.cursor.pos.row = 0
       => SameButViewport(scroll_up(editor), editor)


\* ------------------------------------------------- cursor and viewport
\* The screen rows of the lines before lines[n] (0-based) of self.
RowsBefore(self, n) == RowsUpTo(self, n)

\* The screen row, counted from the first row of the file, of the row
\* that holds the cursor and of the first row of the viewport.
CursorRow(self) ==
    RowsBefore(self, self.cursor.line)
        + (self.cursor.byte \div self.window_width)
ViewportRow(self) ==
    RowsBefore(self, self.line_offset)
        + (self.line_offset_byte \div self.window_width)

\* C26: in a window of two rows or more cursor.pos.row is below
\* window_height and is the number of screen rows from the first row of
\* the viewport to the row of the cursor; a Down on the last window row
\* that moves the cursor moves the viewport one row down and keeps
\* cursor.pos.row, an Up on the top row that moves it moves the viewport
\* one row up and keeps cursor.pos.row.
C26_CursorInsideViewport ==
    (Running /\ editor.window_height >= 2)
    =>
    /\ editor.cursor.pos.row < editor.window_height
    /\ editor.cursor.pos.row = CursorRow(editor) - ViewportRow(editor)
    /\ LET d == cursor_down(editor)
       IN  (editor.cursor.pos.row + 1 = editor.window_height
              /\ d.cursor /= editor.cursor)
           => /\ ViewportRow(d) = ViewportRow(editor) + 1
              /\ d.cursor.pos.row = editor.cursor.pos.row
    /\ LET u == cursor_up(editor)
       IN  (editor.cursor.pos.row = 0 /\ u.cursor /= editor.cursor)
           => /\ ViewportRow(u) = ViewportRow(editor) - 1
              /\ u.cursor.pos.row = 0


\* ------------------------------------------------------------- filler rows
\* The filler markers in the bytes s.
Fillers(s) == Len(SelectSeq(s, LAMBDA b : b = "~"))

\* C27: in a frame drawn from the first byte of the file the rows of text
\* and the rows with the filler marker '~' are window_height rows
\* together.
C27_PainterFillsWindow ==
    (process.pc = "read" /\ Running)
    => Min(editor.window_height, RowsUpTo(editor, Len(editor.lines)))
           + Fillers(stdout)
         = editor.window_height


=============================================================================
